---- MODULE Spec2Model ----
(***************************************************************************)
(* Model of the real-time cart ingestion script                            *)
(* (src/near_realtime_ingestion_2.py): the canonical products signature,   *)
(* the snapshot change detector, the event builder and the polling loop    *)
(* with its persisted snapshot file.                                       *)
(*                                                                         *)
(* Conventions.                                                            *)
(*  - A Python int id is [int |-> n], a Python str id is [str |-> s];       *)
(*    Str models str().                                                    *)
(*  - None is the empty sequence <<>>, a present value v is <<v>>.         *)
(*  - A date supplied by the API is <<"api", n>>; a datetime.now() value   *)
(*    is <<"now", clock, k>>, k the position of the read inside a cycle.   *)
(*  - md5(...).hexdigest()[:12] is modelled as collision free.             *)
(*  - The wall clock advances once per loop iteration, so readings of      *)
(*    different cycles differ and readings of one cycle are ordered by k.  *)
(*  - The ids of one response are unique (spec, section 3); in the loop    *)
(*    the retries inside fetch_carts_from_api are folded into the outcome  *)
(*    of the call, SpecFetch unfolds them.                                 *)
(*  - The broker's answer to the k-th publish call of an event and what    *)
(*    the dead-letter directory does are inputs of publish_events.         *)
(*  - The text of a file is <<"json", object>> when json.load accepts it.  *)
(*                                                                         *)
(* Spec is the polling loop over records that differ in id and date.       *)
(* SpecOrder is the same loop over one cart, keeping every publish call;   *)
(* SpecLive is that loop with every step of a running process completing.  *)
(* SpecSig, SpecEvent, SpecDetect, SpecPublish and SpecFetch apply         *)
(* calculate_products_signature, create_event, compare_and_detect_changes, *)
(* publish_events and fetch_carts_from_api to bounded inputs; SpecCycle    *)
(* applies the detection and event building of one cycle.                  *)
(***************************************************************************)
EXTENDS Integers, Sequences, FiniteSets, TLC

(* ------------------------------ bounds -------------------------------- *)

\* ids the polled API serves in the loop specification
MaxId == 2
\* distinct source dates
MaxDate == 2
\* distinct userIds (function-level specification)
MaxUser == 2
\* productIds, quantities and length of a products list (function-level specification)
MaxProductId == 2
MaxQuantity == 2
MaxProducts == 2
\* length of the products list whose permutations the loop specification serves
NarrowLen == 1
\* loop iterations over all runs; the clock advances once per iteration
MaxPolls == 3
\* process starts
MaxRuns == 2
\* publish calls of one event the broker is prepared to answer
MaxBrokerCalls == 5
\* events in a batch handed to publish_events (function-level specification)
MaxBatch == 2
\* requests of one fetch the API is prepared to answer (function-level specification)
MaxFetchCalls == 4

(* ------------------------- program constants -------------------------- *)

EVENT_SCHEMA_VERSION == "1.0"
SOURCE_NAME == "fake-store-api"
MAX_PUBLISH_RETRIES == 3
MAX_RETRIES == 3
INITIAL_BACKOFF == 2

(* ------------------------------ values -------------------------------- *)

None == <<>>
Some(v) == <<v>>

PyInt(n) == [int |-> n]
PyStr(s) == [str |-> s]

\* str(x) for an id that is an int or already a str
Str(v) == IF "str" \in DOMAIN v THEN v.str ELSE ToString(v.int)

ApiDate(n) == <<"api", n>>
\* datetime.now().isoformat(): the k-th clock read of the cycle numbered c
IsoNow(c, k) == <<"now", c, k>>

Item(p, q) == [productId |-> p, quantity |-> q]

Items == {Item(p, q) : p \in 1..MaxProductId, q \in 1..MaxQuantity}

RECURSIVE SeqsUpTo(_, _)
SeqsUpTo(S, n) ==
    IF n = 0 THEN {<<>>}
    ELSE LET shorter == SeqsUpTo(S, n - 1)
         IN  shorter \cup {Append(s, x) : s \in {t \in shorter : Len(t) = n - 1}, x \in S}

\* every products list of at most MaxProducts items
ProductLists == SeqsUpTo(Items, MaxProducts)

\* sequences over S without repetition, of any length
RECURSIVE InjectiveSeqs(_)
InjectiveSeqs(S) ==
    {<<>>} \cup UNION {{<<x>> \o s : s \in InjectiveSeqs(S \ {x})} : x \in S}

\* every ordering of the cart holding products 1..NarrowLen
NarrowProducts ==
    {s \in InjectiveSeqs({Item(p, 1) : p \in 1..NarrowLen}) : Len(s) = NarrowLen}

Cart(i, u, d, ps) == [id |-> i, userId |-> u, date |-> d, products |-> ps]

\* the records the API can serve in the loop specification: cart 1 with
\* every date, the other carts with the first date
NarrowCarts ==
    {c \in {Cart(PyInt(i), 1, ApiDate(d), ps) :
               i \in 1..MaxId, d \in 1..MaxDate, ps \in NarrowProducts} :
        c.id = PyInt(1) \/ c.date = ApiDate(1)}

\* records of one id with every content
WideCarts ==
    {Cart(PyInt(1), u, ApiDate(d), ps) :
        u \in 1..MaxUser, d \in 1..MaxDate, ps \in ProductLists}

\* the responses that list the ids in the order o
RECURSIVE FetchesInOrder(_, _)
FetchesInOrder(universe, o) ==
    IF o = <<>> THEN {<<>>}
    ELSE {<<c>> \o rest : c \in {u \in universe : u.id = Head(o)},
                          rest \in FetchesInOrder(universe, Tail(o))}

\* a response: records of the universe, ids unique within one fetch (spec 3)
Fetches(universe) ==
    UNION {FetchesInOrder(universe, o) : o \in InjectiveSeqs({u.id : u \in universe})}

Range(s) == {s[i] : i \in 1..Len(s)}

(* ------------------------ fetch_carts_from_api ------------------------ *)

\* faulty variant: one request more than MAX_RETRIES
RECURSIVE fetch_carts_from_api_extra_request(_, _)
fetch_carts_from_api_extra_request(api, attempt) ==
    IF api[attempt] # None
    THEN [result |-> api[attempt], requests |-> <<attempt>>, slept |-> <<>>]
    ELSE LET backoff_time == INITIAL_BACKOFF * (2 ^ (attempt - 1))
         IN  IF attempt < MAX_RETRIES + 1
             THEN LET r == fetch_carts_from_api_extra_request(api, attempt + 1)
                  IN  [result |-> r.result,
                       requests |-> <<attempt>> \o r.requests,
                       slept |-> <<backoff_time>> \o r.slept]
             ELSE [result |-> None, requests |-> <<attempt>>, slept |-> <<>>]

\* lines 92-113, from the given attempt on; api[k] is the outcome of the k-th
\* request: None when it raises a RequestException, else Some of the records
\* of the response.  The result carries the return value, the attempts made
\* and the delays slept.
RECURSIVE fetch_carts_from_api(_, _)
fetch_carts_from_api(api, attempt) ==
    IF api[attempt] # None
    THEN [result |-> api[attempt], requests |-> <<attempt>>, slept |-> <<>>]
    ELSE LET backoff_time == INITIAL_BACKOFF * (2 ^ (attempt - 1))
         IN  IF attempt < MAX_RETRIES
             THEN LET r == fetch_carts_from_api(api, attempt + 1)
                  IN  [result |-> r.result,
                       requests |-> <<attempt>> \o r.requests,
                       slept |-> <<backoff_time>> \o r.slept]
             ELSE [result |-> None, requests |-> <<attempt>>, slept |-> <<>>]

(* -------------------- calculate_products_signature -------------------- *)

\* the position at which sorted() places x in an already sorted prefix:
\* after every element whose key is not greater (the sort is stable)
InsertAfterEqual(s, x) ==
    LET k == Cardinality({i \in 1..Len(s) : s[i].productId <= x.productId})
    IN  SubSeq(s, 1, k) \o <<x>> \o SubSeq(s, k + 1, Len(s))

RECURSIVE SortedByProductId(_)
SortedByProductId(products) ==
    IF products = <<>> THEN <<>>
    ELSE InsertAfterEqual(SortedByProductId(SubSeq(products, 1, Len(products) - 1)),
                          products[Len(products)])

\* json.dumps(item, sort_keys=True): the keys in sorted order with their values
JsonItem(p) == <<"productId", p.productId, "quantity", p.quantity>>

calculate_products_signature(products) ==
    LET sorted_products == SortedByProductId(products)
    IN  [i \in 1..Len(sorted_products) |-> JsonItem(sorted_products[i])]

products_have_changed(old_products, new_products) ==
    calculate_products_signature(old_products) # calculate_products_signature(new_products)

(* ------------------------------ events -------------------------------- *)

\* hashlib.md5(hash_input).hexdigest()[:12], taken as collision free
Md5Hex12(hash_input) == <<"md5", hash_input>>

\* faulty variant: the hash is taken over the products in the order received
generate_event_id_unsorted(cart) ==
    LET cart_id == Str(cart.id)
        hash_input == <<cart_id, "_", cart.date, "_", cart.products>>
    IN  <<"cart_", cart_id, "_", Md5Hex12(hash_input)>>

generate_event_id(cart) ==
    LET cart_id == Str(cart.id)
        cart_date == cart.date
        products_sig == calculate_products_signature(cart.products)
        hash_input == <<cart_id, "_", cart_date, "_", products_sig>>
        event_hash == Md5Hex12(hash_input)
    IN  <<"cart_", cart_id, "_", event_hash>>

\* json.dumps / json.loads of the event payload
JsonDumps(obj) == <<"json", obj>>
JsonLoads(text) == text[2]

\* published_at is the clock read inside create_event
create_event(cart, event_type, extracted_at, run_id, published_at) ==
    [event_id |-> generate_event_id(cart),
     event_type |-> event_type,
     event_schema_version |-> EVENT_SCHEMA_VERSION,
     source |-> SOURCE_NAME,
     extracted_at |-> extracted_at,
     published_at |-> published_at,
     run_id |-> run_id,
     data |-> JsonDumps([id |-> cart.id, userId |-> cart.userId, date |-> cart.date,
                         products |-> cart.products, v |-> 0])]

EventsOf(cs, event_type, extracted_at, run_id, published_at) ==
    [i \in 1..Len(cs) |-> create_event(cs[i], event_type, extracted_at, run_id, published_at)]

\* faulty variant: the events of the modified records come first
process_carts_and_generate_events_modified_first(new_carts, modified_carts, deleted_carts, extracted_at, run_id, published_at) ==
    EventsOf(modified_carts, "cart_modified", extracted_at, run_id, published_at)
    \o EventsOf(new_carts, "cart_created", extracted_at, run_id, published_at)
    \o EventsOf(deleted_carts, "cart_deleted", extracted_at, run_id, published_at)

\* lines 347-388
process_carts_and_generate_events(new_carts, modified_carts, deleted_carts, extracted_at, run_id, published_at) ==
    EventsOf(new_carts, "cart_created", extracted_at, run_id, published_at)
    \o EventsOf(modified_carts, "cart_modified", extracted_at, run_id, published_at)
    \o EventsOf(deleted_carts, "cart_deleted", extracted_at, run_id, published_at)

(* ------------------------- snapshot and detect ------------------------ *)

EmptyMap == [k \in {} |-> 0]

create_empty_state(created_at) ==
    [carts |-> EmptyMap,
     metadata |-> [created_at |-> created_at, last_update |-> None,
                   poll_count |-> 0, run_id |-> None]]

\* the projection of a record the snapshot keeps
Entry(cart) == [date |-> cart.date, userId |-> cart.userId, products |-> cart.products]

Put(m, k, v) == [x \in DOMAIN m \cup {k} |-> IF x = k THEN v ELSE m[x]]
Del(m, k) == [x \in DOMAIN m \ {k} |-> m[x]]

\* faulty variant: only the first fetched record is stored
ColdStartLoopFirstOnly(carts0, api_carts, n) ==
    IF n = 0 THEN carts0
    ELSE Put(carts0, Str(api_carts[1].id), Entry(api_carts[1]))

\* lines 197-206: the cold start loop over the first n fetched records
RECURSIVE ColdStartLoop(_, _, _)
ColdStartLoop(carts0, api_carts, n) ==
    IF n = 0 THEN carts0
    ELSE Put(ColdStartLoop(carts0, api_carts, n - 1),
             Str(api_carts[n].id), Entry(api_carts[n]))

\* lines 227-232: the record synthesized for a cart that left the source
DeletedCartObj(cart_id, last_known_data, detected_at) ==
    [id |-> PyStr(cart_id),
     userId |-> last_known_data.userId,
     date |-> detected_at,
     products |-> last_known_data.products]

\* faulty variant: the deleted ids stay in the snapshot
RECURSIVE DeletionLoopKeepsEntry(_, _, _, _)
DeletionLoopKeepsEntry(carts0, order, n, detected_at) ==
    IF n = 0 THEN [carts |-> carts0, deleted |-> <<>>]
    ELSE LET prev == DeletionLoopKeepsEntry(carts0, order, n - 1, detected_at)
         IN  [prev EXCEPT !.deleted =
                  Append(@, DeletedCartObj(order[n], carts0[order[n]], detected_at))]

\* lines 221-236: the deletion loop, visiting the missing ids in the given order
RECURSIVE DeletionLoop(_, _, _, _)
DeletionLoop(carts0, order, n, detected_at) ==
    IF n = 0 THEN [carts |-> carts0, deleted |-> <<>>]
    ELSE LET prev == DeletionLoop(carts0, order, n - 1, detected_at)
             cart_id == order[n]
         IN  [carts |-> Del(prev.carts, cart_id),
              deleted |-> Append(prev.deleted,
                                 DeletedCartObj(cart_id, prev.carts[cart_id], detected_at))]

\* lines 267-268: what a modified record writes into its stored entry
ModifiedEntry(old_state, cart) ==
    [old_state EXCEPT !.date = cart.date, !.products = cart.products]

\* faulty variant: a record counts as modified only when both differ
HasChangedBoth(old_state, cart) ==
    /\ old_state.date # cart.date
    /\ products_have_changed(old_state.products, cart.products)

\* lines 260-263: the test that separates modified from unchanged
HasChanged(old_state, cart) ==
    LET date_changed == old_state.date # cart.date
        products_changed == products_have_changed(old_state.products, cart.products)
    IN  date_changed \/ products_changed

\* faulty variant: an unchanged record refreshes its stored entry
RECURSIVE UpsertLoopRefreshesUnchanged(_, _, _)
UpsertLoopRefreshesUnchanged(carts0, api_carts, n) ==
    IF n = 0
    THEN [carts |-> carts0, new |-> <<>>, modified |-> <<>>, unchanged |-> <<>>]
    ELSE LET prev == UpsertLoopRefreshesUnchanged(carts0, api_carts, n - 1)
             cart == api_carts[n]
             cart_id == Str(cart.id)
         IN  IF cart_id \notin DOMAIN prev.carts
             THEN [prev EXCEPT !.new = Append(@, cart),
                               !.carts = Put(@, cart_id, Entry(cart))]
             ELSE IF HasChanged(prev.carts[cart_id], cart)
                  THEN [prev EXCEPT !.modified = Append(@, cart),
                                    !.carts = Put(@, cart_id,
                                                  ModifiedEntry(prev.carts[cart_id], cart))]
                  ELSE [prev EXCEPT !.unchanged = Append(@, cart),
                                    !.carts = Put(@, cart_id, Entry(cart))]

\* lines 239-270: the upsert loop over the first n fetched records
RECURSIVE UpsertLoop(_, _, _)
UpsertLoop(carts0, api_carts, n) ==
    IF n = 0
    THEN [carts |-> carts0, new |-> <<>>, modified |-> <<>>, unchanged |-> <<>>]
    ELSE LET prev == UpsertLoop(carts0, api_carts, n - 1)
             cart == api_carts[n]
             cart_id == Str(cart.id)
         IN  IF cart_id \notin DOMAIN prev.carts
             THEN [prev EXCEPT !.new = Append(@, cart),
                               !.carts = Put(@, cart_id, Entry(cart))]
             ELSE IF HasChanged(prev.carts[cart_id], cart)
                  THEN [prev EXCEPT !.modified = Append(@, cart),
                                    !.carts = Put(@, cart_id,
                                                  ModifiedEntry(prev.carts[cart_id], cart))]
                  ELSE [prev EXCEPT !.unchanged = Append(@, cart)]

\* line 182
IsColdStart(st) == st.metadata.last_update = None

\* the orders in which the loop of line 221 can visit the set missing_ids
IterationOrders(S) == {s \in InjectiveSeqs(S) : Len(s) = Cardinality(S)}

MissingIds(st, api_carts) == DOMAIN st.carts \ {Str(c.id) : c \in Range(api_carts)}

\* the snapshot after the call and the dictionary it returns
compare_and_detect_changes(st, api_carts, order, detected_at) ==
    IF IsColdStart(st)
    THEN [state |-> [st EXCEPT !.carts = ColdStartLoop(@, api_carts, Len(api_carts))],
          changes |-> [new |-> api_carts, modified |-> <<>>, deleted |-> <<>>,
                       unchanged |-> <<>>, is_cold_start |-> TRUE]]
    ELSE LET del == DeletionLoop(st.carts, order, Len(order), detected_at)
             ups == UpsertLoop(del.carts, api_carts, Len(api_carts))
         IN  [state |-> [st EXCEPT !.carts = ups.carts],
              changes |-> [new |-> ups.new, modified |-> ups.modified,
                           deleted |-> del.deleted, unchanged |-> ups.unchanged,
                           is_cold_start |-> FALSE]]

(* ------------------------------- state -------------------------------- *)

VARIABLES
    pc,               \* where the process is: "top", "fetching", "detecting",
                      \* "building", "publishing", "saving", "writing", "renaming",
                      \* "waiting"; or how it ended: "stopped", "failed" (an uncaught
                      \* exception), "down" (killed, or not started yet)
    stop,             \* stop_event
    clock,            \* the cycle the wall clock is in
    runs,             \* processes started so far
    local_mode,       \* args.local_mode
    publisher_config, \* None, or Some of the publisher and its topic path
    run_id,           \* polling_loop's run_id
    poll_count,       \* polling_loop's poll_count
    extracted_at,     \* polling_loop's extracted_at
    state,            \* polling_loop's state, the snapshot in memory
    file,             \* STATE_FILE: None when absent, else Some of its text
    temp,             \* the .json.tmp file next to STATE_FILE, likewise
    carts,            \* the result of fetch_carts_from_api in this cycle
    changes,          \* the result of compare_and_detect_changes in this cycle
    events,           \* the events built in this cycle
    stats,            \* the result of publish_events in this cycle
    pubLog,           \* the publisher.publish calls of this cycle
    dead_letter,      \* the events this cycle wrote to DEAD_LETTER_DIR
    sent,             \* history: the publisher.publish calls of all cycles
    from_file,        \* history: load_state returned the content of STATE_FILE
    hist,             \* history: the fetch and the events of a cycle that was cut
                      \* off after publishing and before the snapshot file changed
    last_fetch,       \* history: the fetch of the last cycle this process completed
    pure_in,          \* inputs of the function-level specification
    pure_out          \* results of the function-level specification

vars == <<pc, stop, clock, runs, local_mode, publisher_config, run_id, poll_count,
          extracted_at, state, file, temp, carts, changes, events, stats, pubLog,
          dead_letter, sent, from_file, hist, last_fetch, pure_in, pure_out>>

cycleVars == <<carts, changes, events, stats, pubLog, dead_letter>>
pureVars == <<pure_in, pure_out>>
configVars == <<local_mode, publisher_config, run_id, from_file>>
histVars == <<hist, last_fetch>>
diskVars == <<file, temp>>

\* the memory of a process that is not running
NoState == create_empty_state(None)

InitLoop ==
    /\ pc = "down"
    /\ stop = FALSE
    /\ clock = 0
    /\ runs = 0
    /\ local_mode = FALSE
    /\ publisher_config = None
    /\ run_id = None
    /\ poll_count = 0
    /\ extracted_at = None
    /\ state = NoState
    /\ file = None
    /\ temp = None
    /\ carts = None
    /\ changes = None
    /\ events = <<>>
    /\ stats = None
    /\ pubLog = <<>>
    /\ dead_letter = <<>>
    /\ sent = <<>>
    /\ from_file = FALSE
    /\ hist = None
    /\ last_fetch = None

Init == InitLoop /\ pure_in = None /\ pure_out = None

(* --------------------------- snapshot file ---------------------------- *)

\* a text json.load accepts
IsJson(text) == text[1] = "json"

\* a text that holds a whole snapshot
IsSnapshot(text) ==
    /\ IsJson(text)
    /\ "carts" \in DOMAIN JsonLoads(text)
    /\ "metadata" \in DOMAIN JsonLoads(text)

\* what an interrupted or damaged write leaves: not JSON
Garbage == <<"garbage">>

\* the contents of STATE_FILE that are not a snapshot: no JSON, JSON without
\* the carts mapping, JSON without the metadata part
MalformedTexts ==
    {Garbage,
     JsonDumps([metadata |-> create_empty_state(None).metadata]),
     JsonDumps([carts |-> EmptyMap])}

\* lines 132-145; the clock is read by create_empty_state only.  A text that
\* is not JSON raises JSONDecodeError at line 136, one without "carts" raises
\* KeyError at line 137; both are caught.  Nothing else is looked at.
load_state(f, now) ==
    IF f = None THEN create_empty_state(Some(now))
    ELSE IF ~IsJson(f[1]) THEN create_empty_state(Some(now))
    ELSE IF "carts" \notin DOMAIN JsonLoads(f[1]) THEN create_empty_state(Some(now))
    ELSE JsonLoads(f[1])

\* lines 133-138: the file is there and load_state returns what it holds
LoadsFile(f) == f # None /\ IsJson(f[1]) /\ "carts" \in DOMAIN JsonLoads(f[1])

\* faulty variant: the time of the save is not recorded
StampedCountOnly(st, now) == [st EXCEPT !.metadata.poll_count = @ + 1]

\* lines 151-152: what save_state does to the snapshot in memory
Stamped(st, now) ==
    [st EXCEPT !.metadata.last_update = Some(now), !.metadata.poll_count = @ + 1]

(* ----------------------------- publishing ----------------------------- *)

\* lines 395-422: no publisher in local mode, without the library, or when
\* the client cannot be built
init_pubsub_publisher(is_local, init_ok) ==
    IF is_local THEN None
    ELSE IF init_ok THEN Some("publisher") ELSE None

\* lines 433-437: the cart id read back from the serialized payload, the
\* event_id when the payload has none
MessageCartId(event) ==
    IF "id" \in DOMAIN JsonLoads(event.data)
    THEN Str(JsonLoads(event.data).id)
    ELSE event.event_id

\* faulty variant: the key is taken from the event_id, as in the fallback of line 437
OrderingKeyFromEventId(event) == <<"cart_", event.event_id>>

\* line 451
OrderingKey(event) == <<"cart_", MessageCartId(event)>>

\* lines 440-454: one publisher.publish call and the result of its future
BrokerCall(event, retry_count, acked) ==
    [data |-> JsonDumps(event),
     ordering_key |-> OrderingKey(event),
     event_id |-> event.event_id,
     event_type |-> event.event_type,
     source |-> event.source,
     cart_id |-> MessageCartId(event),
     attempt |-> retry_count + 1,
     acked |-> acked]

\* faulty variant: the delay grows by two seconds per retry
BackoffLinear(retry_count) == 2 * retry_count

\* line 461
Backoff(retry_count) == 2 ^ retry_count

\* faulty variant: one retry more than MAX_PUBLISH_RETRIES
RECURSIVE publish_event_to_pubsub_extra_retry(_, _, _)
publish_event_to_pubsub_extra_retry(event, retry_count, broker) ==
    LET acked == broker[retry_count + 1]
        call == BrokerCall(event, retry_count, acked)
    IN  IF acked THEN [ok |-> TRUE, calls |-> <<call>>, slept |-> <<>>]
        ELSE IF retry_count + 1 <= MAX_PUBLISH_RETRIES + 1
        THEN LET r == publish_event_to_pubsub_extra_retry(event, retry_count + 1, broker)
             IN  [ok |-> r.ok, calls |-> <<call>> \o r.calls,
                  slept |-> <<Backoff(retry_count + 1)>> \o r.slept]
        ELSE [ok |-> FALSE, calls |-> <<call>>, slept |-> <<>>]

\* lines 425-465; broker[k] tells whether the k-th publish call of this event
\* is acknowledged within the timeout.  The result carries the return value,
\* the calls made and the delays slept.
RECURSIVE publish_event_to_pubsub(_, _, _)
publish_event_to_pubsub(event, retry_count, broker) ==
    LET acked == broker[retry_count + 1]
        call == BrokerCall(event, retry_count, acked)
    IN  IF acked THEN [ok |-> TRUE, calls |-> <<call>>, slept |-> <<>>]
        ELSE IF retry_count + 1 <= MAX_PUBLISH_RETRIES
        THEN LET r == publish_event_to_pubsub(event, retry_count + 1, broker)
             IN  [ok |-> r.ok, calls |-> <<call>> \o r.calls,
                  slept |-> <<Backoff(retry_count + 1)>> \o r.slept]
        ELSE [ok |-> FALSE, calls |-> <<call>>, slept |-> <<>>]

\* lines 468-478: what save_to_dead_letter can meet.  "written": the file is
\* written; "swallowed": open or json.dump raises and line 477 swallows it;
\* "raised": the mkdir of line 469, outside the try, raises
SinkOutcomes == {"written", "swallowed", "raised"}

NoStats == [success |-> 0, failed |-> 0, dead_letter |-> 0]

\* the result of publish_events: the dictionary it returns, the broker calls
\* made, the events written to the dead-letter directory, and whether an
\* exception left the function instead of the dictionary
PublishResult(st, calls, dead, raised) ==
    [stats |-> st, calls |-> calls, dead_letter |-> dead, raised |-> raised]

\* faulty variant: a failed event is counted and never written to the sink
RECURSIVE PublishLoopNoDeadLetter(_, _, _, _)
PublishLoopNoDeadLetter(evs, n, broker, sink) ==
    IF n = 0 THEN PublishResult(NoStats, <<>>, <<>>, FALSE)
    ELSE LET prev == PublishLoopNoDeadLetter(evs, n - 1, broker, sink)
             r == publish_event_to_pubsub(evs[n], 0, broker[n])
         IN  IF r.ok
             THEN [prev EXCEPT !.stats.success = @ + 1, !.calls = @ \o r.calls]
             ELSE [prev EXCEPT !.stats.failed = @ + 1, !.stats.dead_letter = @ + 1,
                               !.calls = @ \o r.calls]

\* lines 495-501: the loop over the first n events
RECURSIVE PublishLoop(_, _, _, _)
PublishLoop(evs, n, broker, sink) ==
    IF n = 0 THEN PublishResult(NoStats, <<>>, <<>>, FALSE)
    ELSE LET prev == PublishLoop(evs, n - 1, broker, sink)
             r == publish_event_to_pubsub(evs[n], 0, broker[n])
         IN  IF prev.raised THEN prev
             ELSE IF r.ok
             THEN [prev EXCEPT !.stats.success = @ + 1, !.calls = @ \o r.calls]
             ELSE LET failed == [prev EXCEPT !.stats.failed = @ + 1,
                                             !.calls = @ \o r.calls]
                  IN  CASE sink[n] = "written" ->
                             [failed EXCEPT !.dead_letter = Append(@, evs[n]),
                                            !.stats.dead_letter = @ + 1]
                        [] sink[n] = "swallowed" ->
                             [failed EXCEPT !.stats.dead_letter = @ + 1]
                        [] sink[n] = "raised" ->
                             [failed EXCEPT !.raised = TRUE]

\* faulty variant: the broker is called even without a publisher configuration
publish_events_always_broker(config, evs, broker, sink) ==
    IF evs = <<>> THEN PublishResult(NoStats, <<>>, <<>>, FALSE)
    ELSE PublishLoop(evs, Len(evs), broker, sink)

\* lines 481-503
publish_events(config, evs, broker, sink) ==
    IF evs = <<>> THEN PublishResult(NoStats, <<>>, <<>>, FALSE)
    ELSE IF config = None
    THEN PublishResult([success |-> Len(evs), failed |-> 0, dead_letter |-> 0],
                       <<>>, <<>>, FALSE)
    ELSE PublishLoop(evs, Len(evs), broker, sink)

(* ---------------------------- polling loop ---------------------------- *)

\* the process ends and its memory is gone
ProcessEnds(how) ==
    /\ pc' = how
    /\ stop' = FALSE
    /\ local_mode' = FALSE
    /\ publisher_config' = None
    /\ run_id' = None
    /\ from_file' = FALSE
    /\ poll_count' = 0
    /\ extracted_at' = None
    /\ state' = NoState
    /\ carts' = None
    /\ changes' = None
    /\ events' = <<>>
    /\ stats' = None
    /\ pubLog' = <<>>
    /\ dead_letter' = <<>>
    /\ last_fetch' = None

\* the process is killed
ProcessGone == ProcessEnds("down")

\* an exception nothing catches leaves main: the process exits with a traceback
Uncaught == ProcessEnds("failed")

\* no process is running
Ended == {"down", "failed", "stopped"}

\* main, lines 581-598, and polling_loop, lines 511-521.  The snapshot that
\* load_state returns is indexed with "metadata" at line 513; the KeyError of
\* a snapshot without it is caught nowhere.
Start ==
    /\ pc \in Ended
    /\ runs < MaxRuns
    /\ runs' = runs + 1
    /\ LET loaded == load_state(file, IsoNow(clock, 4))
       IN  IF "metadata" \in DOMAIN loaded
           THEN /\ \E is_local \in BOOLEAN, init_ok \in BOOLEAN :
                      /\ local_mode' = is_local
                      /\ publisher_config' = init_pubsub_publisher(is_local, init_ok)
                /\ run_id' = Some(runs')
                /\ from_file' = LoadsFile(file)
                /\ state' = [loaded EXCEPT !.metadata.run_id = run_id']
                /\ poll_count' = 0
                /\ stop' = FALSE
                /\ pc' = "top"
                /\ last_fetch' = None
                /\ UNCHANGED <<extracted_at, cycleVars>>
           ELSE Uncaught
    /\ UNCHANGED <<clock, diskVars, sent, hist, pureVars>>

\* the snapshot file a run has left is damaged or removed before the next run
Damage ==
    /\ pc \in Ended
    /\ runs < MaxRuns
    /\ file # None
    /\ IsSnapshot(file[1])
    /\ \E f \in {None} \cup {Some(t) : t \in MalformedTexts} : file' = f
    /\ UNCHANGED <<pc, stop, clock, runs, configVars, poll_count, extracted_at, state,
                   temp, cycleVars, sent, histVars, pureVars>>

\* line 523 with the stop signal set, line 566
LoopExit ==
    /\ pc = "top"
    /\ stop
    /\ pc' = "stopped"
    /\ UNCHANGED <<stop, clock, runs, configVars, poll_count, extracted_at, state,
                   diskVars, cycleVars, sent, histVars, pureVars>>

\* lines 523-527
LoopTop ==
    /\ pc = "top"
    /\ ~stop
    /\ clock < MaxPolls
    /\ clock' = clock + 1
    /\ poll_count' = poll_count + 1
    /\ extracted_at' = Some(IsoNow(clock', 0))
    /\ pc' = "fetching"
    /\ UNCHANGED <<stop, runs, configVars, state, diskVars, cycleVars, sent, histVars,
                   pureVars>>

\* the pc after a cycle: lines 531-533 and 562-564
AfterCycle == IF stop THEN "top" ELSE "waiting"

\* a record the source serves without its id
NoIdCart == [userId |-> 1, date |-> ApiDate(1), products |-> <<>>]

HasId(cart) == "id" \in DOMAIN cart

\* the responses of at most two records one of which lacks its id
FetchesMissingId(universe) ==
    {<<NoIdCart>> \o f : f \in {g \in Fetches(universe) : Len(g) <= 1}}
    \cup {f \o <<NoIdCart>> : f \in {g \in Fetches(universe) : Len(g) <= 1}}

\* line 529, the fetch returns records
FetchOk(universe) ==
    /\ pc = "fetching"
    /\ \E f \in Fetches(universe) \cup FetchesMissingId(universe) :
          /\ carts' = Some(f)
          /\ hist' = IF hist # None /\ hist[1].carts # f THEN None ELSE hist
    /\ pc' = "detecting"
    /\ UNCHANGED <<stop, clock, runs, configVars, poll_count, extracted_at, state,
                   diskVars, changes, events, stats, pubLog, dead_letter, sent,
                   last_fetch, pureVars>>

\* faulty variant: the snapshot is stamped as saved although nothing was fetched
FetchFailSaves ==
    /\ pc = "fetching"
    /\ carts' = None
    /\ state' = Stamped(state, IsoNow(clock, 3))
    /\ pc' = AfterCycle
    /\ UNCHANGED <<stop, clock, runs, configVars, poll_count, extracted_at,
                   diskVars, changes, events, stats, pubLog, dead_letter, sent,
                   histVars, pureVars>>

\* lines 529-533, the fetch returns None
FetchFail ==
    /\ pc = "fetching"
    /\ carts' = None
    /\ pc' = AfterCycle
    /\ UNCHANGED <<stop, clock, runs, configVars, poll_count, extracted_at, state,
                   diskVars, changes, events, stats, pubLog, dead_letter, sent,
                   histVars, pureVars>>

\* line 538
CartsToProcess(ch) == ch.new \o ch.modified \o ch.deleted

\* faulty variant: the stop signal is looked at after detection
AfterDetectChecksStop(ch) ==
    IF stop THEN "top"
    ELSE IF Len(CartsToProcess(ch)) > 0 THEN "building" ELSE "saving"

\* the pc after detection: lines 540 and 556
AfterDetect(ch) == IF Len(CartsToProcess(ch)) > 0 THEN "building" ELSE "saving"

\* line 184: c["id"] of a record without id raises KeyError before anything
\* is classified; neither compare_and_detect_changes, polling_loop nor main
\* catches it
detect_raises(api_carts) == \E i \in 1..Len(api_carts) : ~HasId(api_carts[i])

\* faulty variant: the snapshot is written as soon as it has been updated
DetectSavesFirst ==
    /\ pc = "detecting"
    /\ ~detect_raises(carts[1])
    /\ \E order \in IterationOrders(MissingIds(state, carts[1])) :
          LET r == compare_and_detect_changes(state, carts[1], order, IsoNow(clock, 1))
          IN  /\ state' = r.state
              /\ changes' = Some(r.changes)
              /\ file' = Some(JsonDumps(r.state))
              /\ pc' = AfterDetect(r.changes)
    /\ UNCHANGED <<stop, clock, runs, configVars, poll_count, extracted_at, temp,
                   carts, events, stats, pubLog, dead_letter, sent, histVars, pureVars>>

\* lines 536-540
Detect ==
    /\ pc = "detecting"
    /\ ~detect_raises(carts[1])
    /\ \E order \in IterationOrders(MissingIds(state, carts[1])) :
          LET r == compare_and_detect_changes(state, carts[1], order, IsoNow(clock, 1))
          IN  /\ state' = r.state
              /\ changes' = Some(r.changes)
              /\ pc' = AfterDetect(r.changes)
    /\ UNCHANGED <<stop, clock, runs, configVars, poll_count, extracted_at, diskVars,
                   carts, events, stats, pubLog, dead_letter, sent, histVars, pureVars>>

\* line 536 when line 184 raises: the process ends with the traceback
DetectFails ==
    /\ pc = "detecting"
    /\ detect_raises(carts[1])
    /\ Uncaught
    /\ hist' = None
    /\ UNCHANGED <<clock, runs, diskVars, sent, pureVars>>

\* lines 545-551
BuildEvents ==
    /\ pc = "building"
    /\ events' = process_carts_and_generate_events(
                     changes[1].new, changes[1].modified, changes[1].deleted,
                     extracted_at[1], run_id[1], IsoNow(clock, 2))
    /\ pc' = "publishing"
    /\ UNCHANGED <<stop, clock, runs, configVars, poll_count, extracted_at, state,
                   diskVars, carts, changes, stats, pubLog, dead_letter, sent,
                   histVars, pureVars>>

\* lines 545-551 when create_event or save_event_locally raises (a KeyError of
\* line 324, an OSError of line 337): nothing in polling_loop or main catches it
BuildFails ==
    /\ pc = "building"
    /\ Uncaught
    /\ hist' = None
    /\ UNCHANGED <<clock, runs, diskVars, sent, pureVars>>

\* the publish calls the broker answers with errors until one of them, or none,
\* is acknowledged
AckFrom(a) == [k \in 1..MaxBrokerCalls |-> k >= a]

\* a broker that acknowledges the first call, or none
NarrowBrokers == {AckFrom(1), AckFrom(MaxBrokerCalls + 1)}

\* a broker that acknowledges the first call, the second call, or none
OrderBrokers == {AckFrom(1), AckFrom(2), AckFrom(MaxBrokerCalls + 1)}

\* lines 554-555; an exception that leaves publish_events ends the process.
\* The history sent is kept in the specification that examines it.
PublishEvents(brokers, keep_sent) ==
    /\ pc = "publishing"
    /\ \E broker \in [1..Len(events) -> brokers],
          sink \in [1..Len(events) -> SinkOutcomes] :
          LET r == publish_events(publisher_config, events, broker, sink)
          IN  /\ sent' = IF keep_sent THEN sent \o r.calls ELSE sent
              /\ IF r.raised
                 THEN /\ Uncaught
                      /\ hist' = None
                      /\ UNCHANGED <<clock, runs, diskVars, pureVars>>
                 ELSE /\ stats' = Some(r.stats)
                      /\ pubLog' = r.calls
                      /\ dead_letter' = r.dead_letter
                      /\ pc' = "saving"
                      /\ UNCHANGED <<stop, clock, runs, configVars, poll_count,
                                     extracted_at, state, diskVars, carts, changes,
                                     events, histVars, pureVars>>

\* the cycle is over: its locals are dead and are cleared
CycleDone ==
    /\ pc' = AfterCycle
    /\ last_fetch' = carts
    /\ hist' = None
    /\ carts' = None
    /\ changes' = None
    /\ events' = <<>>
    /\ stats' = None
    /\ pubLog' = <<>>
    /\ dead_letter' = <<>>

\* faulty variant: the snapshot is written into STATE_FILE itself
SaveOpenInPlace ==
    /\ pc = "saving"
    /\ state' = Stamped(state, IsoNow(clock, 3))
    /\ file' = Some(Garbage)
    /\ pc' = "writing"
    /\ UNCHANGED <<stop, clock, runs, configVars, poll_count, extracted_at, temp,
                   cycleVars, sent, histVars, pureVars>>

\* lines 149-157: the snapshot in memory is stamped and the temp file is
\* opened for writing, which empties it
SaveOpen ==
    /\ pc = "saving"
    /\ state' = Stamped(state, IsoNow(clock, 3))
    /\ temp' = Some(Garbage)
    /\ pc' = "writing"
    /\ UNCHANGED <<stop, clock, runs, configVars, poll_count, extracted_at, file,
                   cycleVars, sent, histVars, pureVars>>

\* line 158 completes: the temp file holds the whole snapshot
SaveWrite ==
    /\ pc = "writing"
    /\ temp' = Some(JsonDumps(state))
    /\ pc' = "renaming"
    /\ UNCHANGED <<stop, clock, runs, configVars, poll_count, extracted_at, state, file,
                   cycleVars, sent, histVars, pureVars>>

\* line 159: the temp file replaces STATE_FILE; lines 562-564
SaveRename ==
    /\ pc = "renaming"
    /\ file' = temp
    /\ temp' = None
    /\ CycleDone
    /\ UNCHANGED <<stop, clock, runs, configVars, poll_count, extracted_at, state, sent,
                   pureVars>>

\* faulty variant: the snapshot is stamped only once it has been written
SaveFailsUnstamped ==
    /\ pc \in {"saving", "writing", "renaming"}
    /\ state' = state
    /\ temp' = None
    /\ CycleDone
    /\ UNCHANGED <<stop, clock, runs, configVars, poll_count, extracted_at, file, sent,
                   pureVars>>

\* lines 157-164 when the open, the dump or the replace raises: the temp file
\* is removed and STATE_FILE stays as it was; lines 562-564
SaveFails ==
    /\ pc \in {"saving", "writing", "renaming"}
    /\ state' = IF pc = "saving" THEN Stamped(state, IsoNow(clock, 3)) ELSE state
    /\ temp' = None
    /\ CycleDone
    /\ UNCHANGED <<stop, clock, runs, configVars, poll_count, extracted_at, file, sent,
                   pureVars>>

\* lines 532 and 564: stop_event.wait returns, on the timeout or on the signal
Wake ==
    /\ pc = "waiting"
    /\ pc' = "top"
    /\ UNCHANGED <<stop, clock, runs, configVars, poll_count, extracted_at, state,
                   diskVars, cycleVars, sent, histVars, pureVars>>

\* lines 569-571
signal_handler ==
    /\ pc \notin Ended
    /\ ~stop
    /\ stop' = TRUE
    /\ UNCHANGED <<pc, clock, runs, configVars, poll_count, extracted_at, state,
                   diskVars, cycleVars, sent, histVars, pureVars>>

\* the process is killed; only the files survive.  A kill between
\* publish_events and the replace of STATE_FILE is remembered in hist.
Crash ==
    /\ pc \notin Ended
    /\ hist' = IF pc \in {"saving", "writing", "renaming"}
               THEN Some([carts |-> carts[1], events |-> events])
               ELSE None
    /\ ProcessGone
    /\ UNCHANGED <<clock, runs, diskVars, sent, pureVars>>

Loop(universe, brokers, keep_sent) ==
    \/ Start
    \/ Damage
    \/ LoopExit
    \/ LoopTop
    \/ FetchOk(universe)
    \/ FetchFail
    \/ Detect
    \/ DetectFails
    \/ BuildEvents
    \/ BuildFails
    \/ PublishEvents(brokers, keep_sent)
    \/ SaveOpen
    \/ SaveWrite
    \/ SaveRename
    \/ SaveFails
    \/ Wake
    \/ signal_handler
    \/ Crash

Next == Loop(NarrowCarts, NarrowBrokers, FALSE)

Spec == Init /\ [][Next]_vars

\* the records of cart 1
OrderCarts == {c \in NarrowCarts : c.id = PyInt(1)}

\* the polling loop over one cart, with the history of publish calls kept
NextOrder == Loop(OrderCarts, OrderBrokers, TRUE)

SpecOrder == Init /\ [][NextOrder]_vars

\* every step of a running process completes: the calls of a cycle return or
\* raise, and stop_event.wait returns on its timeout or on the signal.  The
\* start of a process, a signal and a kill are up to the environment.
LoopFairness ==
    /\ WF_vars(LoopExit)
    /\ WF_vars(LoopTop)
    /\ WF_vars(FetchOk(OrderCarts) \/ FetchFail)
    /\ WF_vars(Detect \/ DetectFails)
    /\ WF_vars(BuildEvents \/ BuildFails)
    /\ WF_vars(PublishEvents(NarrowBrokers, FALSE))
    /\ WF_vars(SaveOpen \/ SaveWrite \/ SaveRename \/ SaveFails)
    /\ WF_vars(Wake)

NextLive == Loop(OrderCarts, NarrowBrokers, FALSE)

\* the polling loop over one cart, every step of a running process completing
SpecLive == Init /\ [][NextLive]_vars /\ LoopFairness

(* ------------------- function-level specification -------------------- *)

\* records of MaxId ids over products lists of at most one item
MediumCarts ==
    {Cart(PyInt(i), 1, ApiDate(d), ps) :
        i \in 1..MaxId, d \in 1..MaxDate, ps \in SeqsUpTo(Items, 1)}

\* the snapshots polling can have built from a universe: empty before the first
\* save, afterwards any set of its ids with the projection of one of its records
RECURSIVE CartMaps(_, _)
CartMaps(universe, ids) ==
    IF ids = {} THEN {EmptyMap}
    ELSE LET k == CHOOSE x \in ids : TRUE
             rest == CartMaps(universe, ids \ {k})
         IN  rest \cup {Put(m, Str(k), Entry(c)) :
                          m \in rest, c \in {u \in universe : u.id = k}}

Snapshots(universe) ==
    {create_empty_state(Some(IsoNow(0, 4)))}
    \cup {[carts |-> m,
           metadata |-> [created_at |-> Some(IsoNow(0, 4)),
                         last_update |-> Some(IsoNow(1, 3)),
                         poll_count |-> 1, run_id |-> Some(1)]] :
            m \in CartMaps(universe, {u.id : u \in universe})}

DetectInputs(universe) ==
    {[kind |-> "detect", state |-> st, api_carts |-> f] :
        st \in Snapshots(universe), f \in Fetches(universe)}

SignatureInputs ==
    {[kind |-> "signature", a |-> a, b |-> b] : a \in ProductLists, b \in ProductLists}

\* two records to build events from: the first with id 1 and date 1, the second
\* with an int or str id and any date
EventInputs ==
    {[kind |-> "event",
      r1 |-> Cart(PyInt(1), 1, ApiDate(1), a),
      r2 |-> Cart(i, 1, ApiDate(d), b)] :
        a \in ProductLists, b \in ProductLists, d \in 1..MaxDate,
        i \in {PyInt(n) : n \in 1..MaxId} \cup {PyStr("1")}}

EventTypes == {"cart_created", "cart_modified", "cart_deleted"}

InitFn(inputs) ==
    /\ InitLoop
    /\ pure_in \in {Some(x) : x \in inputs}
    /\ pure_out = None

loopVars == <<pc, stop, clock, runs, local_mode, publisher_config, run_id, poll_count,
              extracted_at, state, file, temp, carts, changes, events, stats, pubLog,
              dead_letter, sent, from_file, hist, last_fetch>>

ApplySignature ==
    /\ pure_in[1].kind = "signature"
    /\ pure_out = None
    /\ pure_out' = Some([a |-> calculate_products_signature(pure_in[1].a),
                         b |-> calculate_products_signature(pure_in[1].b),
                         changed |-> products_have_changed(pure_in[1].a, pure_in[1].b)])
    /\ UNCHANGED <<loopVars, pure_in>>

ApplyCreateEvent ==
    /\ pure_in[1].kind = "event"
    /\ pure_out = None
    /\ \E t1 \in EventTypes, t2 \in EventTypes, c2 \in 1..MaxPolls, run2 \in 1..MaxRuns :
          pure_out' = Some([e1 |-> create_event(pure_in[1].r1, t1, IsoNow(1, 0), 1,
                                                IsoNow(1, 2)),
                            e2 |-> create_event(pure_in[1].r2, t2, IsoNow(c2, 0), run2,
                                                IsoNow(c2, 2))])
    /\ UNCHANGED <<loopVars, pure_in>>

ApplyDetect ==
    /\ pure_in[1].kind = "detect"
    /\ pure_out = None
    /\ \E order \in IterationOrders(MissingIds(pure_in[1].state, pure_in[1].api_carts)) :
          pure_out' = Some(compare_and_detect_changes(pure_in[1].state, pure_in[1].api_carts,
                                                      order, IsoNow(2, 1)))
    /\ UNCHANGED <<loopVars, pure_in>>

\* the events a batch is made of: the creation of cart 1 and its deletion,
\* whose id is the snapshot's key
BatchEvents ==
    {create_event(Cart(PyInt(1), 1, ApiDate(1), <<>>), "cart_created",
                  IsoNow(1, 0), 1, IsoNow(1, 2))}
    \cup {create_event(DeletedCartObj("1", Entry(Cart(PyInt(1), 1, ApiDate(1), <<>>)),
                                      IsoNow(1, 1)),
                       "cart_deleted", IsoNow(1, 0), 1, IsoNow(1, 2))}

\* every answer of the broker to the successive publish calls of one event
AllBrokers == [1..MaxBrokerCalls -> BOOLEAN]

\* a batch with, for each of its positions, the broker's answers and what
\* the dead-letter directory does
PublishInputs ==
    {[kind |-> "publish", config |-> c, events |-> evs, broker |-> b, sink |-> k] :
        c \in {None, Some("publisher")},
        evs \in SeqsUpTo(BatchEvents, MaxBatch),
        b \in [1..MaxBatch -> AllBrokers],
        k \in [1..MaxBatch -> SinkOutcomes]}

ApplyPublish ==
    /\ pure_in[1].kind = "publish"
    /\ pure_out = None
    /\ pure_out' =
          Some([batch |-> publish_events(pure_in[1].config, pure_in[1].events,
                                         pure_in[1].broker, pure_in[1].sink),
                each |-> [i \in 1..Len(pure_in[1].events) |->
                            publish_event_to_pubsub(pure_in[1].events[i], 0,
                                                    pure_in[1].broker[i])]])
    /\ UNCHANGED <<loopVars, pure_in>>

\* records of one id more than the loop specification serves, so that one
\* poll can create, modify and delete
CycleCarts ==
    {Cart(PyInt(i), 1, ApiDate(d), <<>>) : i \in 1..(MaxId + 1), d \in 1..MaxDate}

CycleInputs ==
    {[kind |-> "cycle", state |-> st, api_carts |-> f] :
        st \in Snapshots(CycleCarts), f \in Fetches(CycleCarts)}

\* lines 536-554 of a cycle whose fetch succeeded: detection, the test of
\* line 540, the events built and the list handed to publish_events (None
\* when publish_events is not called)
ApplyCycle ==
    /\ pure_in[1].kind = "cycle"
    /\ pure_out = None
    /\ \E order \in IterationOrders(MissingIds(pure_in[1].state, pure_in[1].api_carts)) :
          LET r == compare_and_detect_changes(pure_in[1].state, pure_in[1].api_carts,
                                              order, IsoNow(2, 1))
              built == process_carts_and_generate_events(
                           r.changes.new, r.changes.modified, r.changes.deleted,
                           IsoNow(2, 0), 1, IsoNow(2, 2))
          IN  pure_out' =
                 Some([changes |-> r.changes,
                       state |-> r.state,
                       events |-> IF Len(CartsToProcess(r.changes)) > 0
                                  THEN built ELSE <<>>,
                       handed |-> IF Len(CartsToProcess(r.changes)) > 0
                                  THEN Some(built) ELSE None])
    /\ UNCHANGED <<loopVars, pure_in>>

SpecCycle == InitFn(CycleInputs) /\ [][ApplyCycle]_vars

\* the outcomes of the successive requests of one fetch: a transport failure
\* or a response with records of cart 1
FetchInputs ==
    {[kind |-> "fetch", api |-> a] :
        a \in [1..MaxFetchCalls -> {None} \cup {Some(f) : f \in Fetches(OrderCarts)}]}

\* lines 529-530: the fetch of a cycle and whether the loop skips the cycle
ApplyFetch ==
    /\ pure_in[1].kind = "fetch"
    /\ pure_out = None
    /\ LET r == fetch_carts_from_api(pure_in[1].api, 1)
       IN  pure_out' = Some([fetch |-> r, skip |-> (r.result = None)])
    /\ UNCHANGED <<loopVars, pure_in>>

SpecFetch == InitFn(FetchInputs) /\ [][ApplyFetch]_vars

SpecPublish == InitFn(PublishInputs) /\ [][ApplyPublish]_vars

SpecSig == InitFn(SignatureInputs) /\ [][ApplySignature]_vars

SpecEvent == InitFn(EventInputs) /\ [][ApplyCreateEvent]_vars

SpecDetect ==
    InitFn(DetectInputs(WideCarts) \cup DetectInputs(MediumCarts)) /\ [][ApplyDetect]_vars

(* ------------------------------- claims ------------------------------- *)

In == pure_in[1]
Out == pure_out[1]

Count(s, x) == Cardinality({i \in 1..Len(s) : s[i] = x})

\* the two lists hold the same items the same number of times
SameItems(a, b) == \A x \in Range(a) \cup Range(b) : Count(a, x) = Count(b, x)

IdsOf(cs) == {Str(cs[i].id) : i \in 1..Len(cs)}

\* C1: two records with equal id, equal date and equal canonical products
\* signature get the same event_id, whatever the order of their items and
\* whatever event type, extraction time and run id the builder is given.
C1_SameContentSameEventId ==
    pure_out # None =>
        ((/\ Str(In.r1.id) = Str(In.r2.id)
          /\ In.r1.date = In.r2.date
          /\ calculate_products_signature(In.r1.products)
               = calculate_products_signature(In.r2.products))
         => Out.e1.event_id = Out.e2.event_id)

\* two records whose items come in different orders, built with different
\* event types, extraction times and run ids, share their event_id
C1_Witness ==
    /\ pure_out # None
    /\ In.r1.id = In.r2.id
    /\ In.r1.date = In.r2.date
    /\ In.r1.products # In.r2.products
    /\ calculate_products_signature(In.r1.products)
         = calculate_products_signature(In.r2.products)
    /\ Out.e1.event_type # Out.e2.event_type
    /\ Out.e1.extracted_at # Out.e2.extracted_at
    /\ Out.e1.run_id # Out.e2.run_id
    /\ Out.e1.event_id = Out.e2.event_id

\* the events of one cart and one kind of change
SameChange(e, f) == e.event_type = f.event_type /\ OrderingKey(e) = OrderingKey(f)

\* C2: after a kill between publishing and save_state and a restart against
\* an unchanged source, every event the replayed poll emits for a change
\* carries the event_id that was emitted for that change before the kill.
C2_ReplayKeepsEventIds ==
    (pc = "saving" /\ hist # None) =>
        \A i \in 1..Len(events), j \in 1..Len(hist[1].events) :
            SameChange(events[i], hist[1].events[j])
                => events[i].event_id = hist[1].events[j].event_id

\* C3: from an empty snapshot every fetched record is classified created,
\* none modified, deleted or unchanged, and the snapshot then holds exactly
\* the fetched ids.
C3_ColdStartCompleteness ==
    (pure_out # None /\ DOMAIN In.state.carts = {}) =>
        /\ Out.changes.new = In.api_carts
        /\ Out.changes.modified = <<>>
        /\ Out.changes.deleted = <<>>
        /\ Out.changes.unchanged = <<>>
        /\ DOMAIN Out.state.carts = IdsOf(In.api_carts)
        /\ Cardinality(DOMAIN Out.state.carts) = Len(In.api_carts)
        /\ IsColdStart(In.state) => Out.changes.is_cold_start

\* a cold start over two records has filled the snapshot with both
C3_Witness ==
    /\ pure_out # None
    /\ IsColdStart(In.state)
    /\ Len(In.api_carts) = 2
    /\ Len(Out.changes.new) = 2
    /\ Cardinality(DOMAIN Out.state.carts) = 2

\* C4: on a warm poll exactly the ids of the snapshot that the fetch lacks
\* are classified deleted, each deleted record is built from the stored
\* userId and products with the detection time as date, its id leaves the
\* snapshot, and a fetched record whose stored date and products are
\* identical is classified unchanged.
C4_DeletionDetection ==
    (pure_out # None /\ ~IsColdStart(In.state)) =>
        LET S == DOMAIN In.state.carts
            F == IdsOf(In.api_carts)
            deleted == Out.changes.deleted
        IN  /\ IdsOf(deleted) = S \ F
            /\ Len(deleted) = Cardinality(S \ F)
            /\ \A i \in 1..Len(deleted) :
                  LET k == Str(deleted[i].id)
                  IN  /\ deleted[i] = [id |-> PyStr(k),
                                       userId |-> In.state.carts[k].userId,
                                       date |-> IsoNow(2, 1),
                                       products |-> In.state.carts[k].products]
                      /\ k \notin DOMAIN Out.state.carts
            /\ \A i \in 1..Len(In.api_carts) :
                  LET c == In.api_carts[i]
                      k == Str(c.id)
                  IN  (/\ k \in S
                       /\ In.state.carts[k].date = c.date
                       /\ In.state.carts[k].products = c.products)
                      => c \in Range(Out.changes.unchanged)

\* a warm poll has found one cart deleted and another one unchanged
C4_Witness ==
    /\ pure_out # None
    /\ ~IsColdStart(In.state)
    /\ Len(Out.changes.deleted) = 1
    /\ Len(Out.changes.unchanged) = 1
    /\ Cardinality(DOMAIN In.state.carts) = 2
    /\ Cardinality(DOMAIN Out.state.carts) = 1

\* C5: on a warm poll a fetched record whose date equals the stored date and
\* whose products are a permutation of the stored products is classified
\* unchanged, not modified, and produces no event.
C5_PermutedProductsUnchanged ==
    (pure_out # None /\ ~IsColdStart(In.state)) =>
        \A i \in 1..Len(In.api_carts) :
            LET c == In.api_carts[i]
                k == Str(c.id)
            IN  (/\ k \in DOMAIN In.state.carts
                 /\ In.state.carts[k].date = c.date
                 /\ SameItems(In.state.carts[k].products, c.products))
                => /\ c \in Range(Out.changes.unchanged)
                   /\ c \notin Range(CartsToProcess(Out.changes))

\* C6: two products lists have the same signature if and only if they hold
\* the same items with the same attributes, in whatever order.
C6_SignatureIffSameItems ==
    pure_out # None => ((Out.a = Out.b) <=> SameItems(In.a, In.b))

\* the stored date or the canonical products signature differs
Differs(entry, c) ==
    \/ entry.date # c.date
    \/ calculate_products_signature(entry.products)
         # calculate_products_signature(c.products)

\* C7: on a warm poll the four lists are pairwise disjoint by id, every
\* fetched record is in exactly one of created, modified and unchanged:
\* created iff its id is not in the snapshot, modified iff it is and the
\* stored date or signature differs, unchanged otherwise.
C7_WarmClassification ==
    (pure_out # None /\ ~IsColdStart(In.state)) =>
        LET S == DOMAIN In.state.carts
            ch == Out.changes
        IN  /\ IdsOf(ch.new) \cap IdsOf(ch.modified) = {}
            /\ IdsOf(ch.new) \cap IdsOf(ch.deleted) = {}
            /\ IdsOf(ch.new) \cap IdsOf(ch.unchanged) = {}
            /\ IdsOf(ch.modified) \cap IdsOf(ch.deleted) = {}
            /\ IdsOf(ch.modified) \cap IdsOf(ch.unchanged) = {}
            /\ IdsOf(ch.deleted) \cap IdsOf(ch.unchanged) = {}
            /\ Len(ch.new) + Len(ch.modified) + Len(ch.unchanged) = Len(In.api_carts)
            /\ \A i \in 1..Len(In.api_carts) :
                  LET c == In.api_carts[i]
                      k == Str(c.id)
                  IN  /\ c \in Range(ch.new) <=> k \notin S
                      /\ c \in Range(ch.modified)
                           <=> (k \in S /\ Differs(In.state.carts[k], c))
                      /\ c \in Range(ch.unchanged)
                           <=> (k \in S /\ ~Differs(In.state.carts[k], c))

\* a warm poll has found one cart created and one modified whose date is the
\* stored one and whose products differ
C7_Witness ==
    /\ pure_out # None
    /\ ~IsColdStart(In.state)
    /\ Len(Out.changes.new) = 1
    /\ Len(Out.changes.modified) = 1
    /\ LET c == Out.changes.modified[1]
       IN  In.state.carts[Str(c.id)].date = c.date

\* C8: after compare_and_detect_changes the ids of the snapshot are the
\* fetched ids and every stored entry is the (date, userId, products)
\* projection of the fetched record with that id.
C8_SnapshotIsFetchProjection ==
    pure_out # None =>
        /\ DOMAIN Out.state.carts = IdsOf(In.api_carts)
        /\ \A i \in 1..Len(In.api_carts) :
              Out.state.carts[Str(In.api_carts[i].id)] = Entry(In.api_carts[i])

\* C9: when a poll receives the fetch of the previous completed poll of the
\* run, detection classifies every record unchanged, nothing is created,
\* modified or deleted, the loop goes straight to saving without building or
\* publishing an event, and the snapshot's carts stay as they were.
C9_RepeatedFetchIsUnchanged ==
    [][(/\ pc = "detecting"
        /\ pc' \in {"building", "saving"}
        /\ last_fetch # None
        /\ carts = last_fetch)
       => /\ changes' = Some([new |-> <<>>, modified |-> <<>>, deleted |-> <<>>,
                              unchanged |-> carts[1], is_cold_start |-> FALSE])
          /\ state'.carts = state.carts
          /\ pc' = "saving"
          /\ events' = <<>>
          /\ pubLog' = <<>>]_vars

\* the poll after a cold start whose snapshot write failed received the same
\* two records and found both unchanged
C9_Witness ==
    /\ pc = "saving"
    /\ last_fetch # None
    /\ carts = last_fetch
    /\ Len(carts[1]) = 2
    /\ changes[1].unchanged = carts[1]
    /\ poll_count = 2
    /\ state.metadata.poll_count = 1
    /\ file = None

\* the events the cycle has to build from its changes
EventsDue ==
    IF Len(CartsToProcess(changes[1])) > 0
    THEN process_carts_and_generate_events(
             changes[1].new, changes[1].modified, changes[1].deleted,
             extracted_at[1], run_id[1], IsoNow(clock, 2))
    ELSE <<>>

\* C10: the snapshot file is written only when every event of the cycle has
\* been built and publish_events has returned; a failure to build an event
\* leaves the file as it was.
C10_SaveAfterBuildAndPublish ==
    [][/\ (file' # file /\ pc \notin Ended) =>
            /\ pc = "renaming"
            /\ changes # None
            /\ events = EventsDue
            /\ events # <<>> =>
                 /\ stats # None
                 /\ stats[1].success + stats[1].failed = Len(events)
                 /\ publisher_config # None =>
                        {c.event_id : c \in Range(pubLog)}
                          = {e.event_id : e \in Range(events)}
       /\ (pc = "building" /\ pc' = "failed") => file' = file]_vars

\* a snapshot holding a detected cart is on disk and its cycle is over
C10_Witness ==
    /\ file # None
    /\ IsSnapshot(file[1])
    /\ DOMAIN JsonLoads(file[1]).carts # {}
    /\ pc = "waiting"

\* the broker answers every call of event i with an error
AlwaysErrors(i) == \A k \in 1..MaxBrokerCalls : ~In.broker[i][k]

\* the calls of the batch made for the event at position i; the events of a
\* batch of PublishInputs are told apart by their event_id when they differ
CallsOf(calls, e) == {k \in 1..Len(calls) : calls[k].event_id = e.event_id}

C12_AttemptsWithinCeiling ==
    pure_out # None =>
        \A i \in 1..Len(In.events) : Len(Out.each[i].calls) <= MAX_PUBLISH_RETRIES

\* C12 amended: publish_event_to_pubsub returns for every pattern of broker
\* failures, after at most MAX_PUBLISH_RETRIES retries, that is at most
\* MAX_PUBLISH_RETRIES + 1 publish calls; the calls are numbered 1, 2, ... and
\* only the last one can be acknowledged; it returns False exactly when
\* MAX_PUBLISH_RETRIES + 1 calls have failed.
C12_RetriesWithinCeiling ==
    pure_out # None =>
        \A i \in 1..Len(In.events) :
            LET r == Out.each[i]
                n == Len(r.calls)
            IN  /\ n >= 1
                /\ n <= MAX_PUBLISH_RETRIES + 1
                /\ Len(r.slept) = n - 1
                /\ \A k \in 1..n : /\ r.calls[k].attempt = k
                                   /\ r.calls[k].acked = In.broker[i][k]
                                   /\ r.calls[k].acked => k = n
                /\ r.ok = r.calls[n].acked
                /\ ~r.ok => n = MAX_PUBLISH_RETRIES + 1

\* an event was acknowledged at its last permitted call, another one was
\* given up after as many calls
C12_Witness ==
    /\ pure_out # None
    /\ Len(In.events) = 2
    /\ Len(Out.each[1].calls) = MAX_PUBLISH_RETRIES + 1
    /\ Out.each[1].ok
    /\ Len(Out.each[2].calls) = MAX_PUBLISH_RETRIES + 1
    /\ ~Out.each[2].ok

\* C13: for every batch and every outcome of its events publish_events
\* makes at least one publish call for each event, whatever happened to the
\* events before it, and returns counts with success + failed = number of
\* events and dead_letter = failed.
C13_EventsIndependent ==
    (pure_out # None /\ In.config # None) =>
        /\ ~Out.batch.raised
        /\ \A i \in 1..Len(In.events) : CallsOf(Out.batch.calls, In.events[i]) # {}
        /\ Out.batch.stats.success + Out.batch.stats.failed = Len(In.events)
        /\ Out.batch.stats.dead_letter = Out.batch.stats.failed

\* C14: without a publisher configuration publish_events reports every
\* event as succeeded, none as failed or dead-lettered, makes no publish call
\* and writes nothing to the dead-letter sink.
C14_LocalModeReportsSuccess ==
    (pure_out # None /\ In.config = None) =>
        /\ Out.batch.stats = [success |-> Len(In.events), failed |-> 0, dead_letter |-> 0]
        /\ Out.batch.calls = <<>>
        /\ Out.batch.dead_letter = <<>>
        /\ ~Out.batch.raised

\* two events that the broker would have refused were reported as succeeded
C14_Witness ==
    /\ pure_out # None
    /\ In.config = None
    /\ Len(In.events) = 2
    /\ \A i \in 1..2 : AlwaysErrors(i)
    /\ Out.batch.stats.success = 2
    /\ Out.batch.calls = <<>>

\* the event a publish call carries, and the id of the record it was built for
EventOf(call) == JsonLoads(call.data)
RecordIdOf(call) == Str(JsonLoads(EventOf(call).data).id)

\* the call ends the publishing of its event
Settles(call) == call.acked \/ call.attempt = MAX_PUBLISH_RETRIES + 1

C16_FailedFetchSkipsCycle ==
    [][(pc = "fetching" /\ pc' \in {"top", "waiting"})
       => /\ carts' = None
          /\ pc' = (IF stop THEN "top" ELSE "waiting")
          /\ state' = state
          /\ file' = file
          /\ temp' = temp
          /\ changes' = None
          /\ events' = <<>>
          /\ stats' = None
          /\ pubLog' = <<>>
          /\ dead_letter' = <<>>
          /\ sent' = sent]_vars

\* the poll after one that saved a cart has failed to fetch and is waiting,
\* memory and file still holding the snapshot of the earlier poll
C16_Witness ==
    /\ pc = "waiting"
    /\ poll_count = 2
    /\ DOMAIN state.carts # {}
    /\ state.metadata.last_update = Some(IsoNow(clock - 1, 3))
    /\ file = Some(JsonDumps(state))

SavePcs == {"saving", "writing", "renaming"}

\* C17: the loop stops only at the loop-top check with the stop signal set;
\* after detection, event building and publishing the cycle goes on to its
\* next step whether or not the signal is set, and the loop top or the wait
\* is reached from a cycle only by the skip of a failed fetch or after
\* save_state has stamped and tried to write the snapshot.
C17_CooperativeCancellation ==
    [][/\ (pc # "stopped" /\ pc' = "stopped") => (pc = "top" /\ stop)
       /\ (pc = "detecting" /\ pc' \notin {pc, "down", "failed"})
            => pc' = (IF Len(CartsToProcess(changes'[1])) > 0 THEN "building" ELSE "saving")
       /\ (pc = "building" /\ pc' \notin {pc, "down", "failed"}) => pc' = "publishing"
       /\ (pc = "publishing" /\ pc' \notin {pc, "down", "failed"}) => pc' = "saving"
       /\ (pc = "fetching" /\ pc' \in {"top", "waiting"}) => carts' = None
       /\ (pc \in SavePcs /\ pc' \notin {pc, "down"})
            => /\ state'.metadata.last_update = Some(IsoNow(clock, 3))
               /\ pc' \in (SavePcs \ {"saving"}) \cup {"top", "waiting"}
       /\ (pc' \in {"top", "waiting"} /\ pc' # pc)
            => pc \in Ended \cup SavePcs \cup {"fetching", "waiting"}]_vars

\* the signal came after the fetch of a cycle that has since built and
\* published its events and written its snapshot to the temp file
C17_Witness ==
    /\ stop
    /\ pc = "renaming"
    /\ Len(events) > 0
    /\ stats # None
    /\ temp = Some(JsonDumps(state))

\* C18: while save_state runs STATE_FILE keeps its content until the
\* replace of line 159 puts the whole stamped snapshot there, which
\* load_state then returns; a process that ends at any point leaves the
\* file as it was at that point.
C18_AtomicSnapshotFile ==
    [][/\ pc \in SavePcs
            => \/ file' = file
               \/ /\ pc = "renaming"
                  /\ file' = Some(JsonDumps(state))
                  /\ load_state(file', IsoNow(clock, 4)) = state
       /\ (pc \notin Ended /\ pc' \in Ended) => file' = file]_vars

\* a process killed between the write of the temp file and the replace was
\* started again and has loaded the snapshot of the poll before
C18_Witness ==
    /\ pc = "top"
    /\ runs = 2
    /\ poll_count = 0
    /\ temp # None
    /\ IsSnapshot(temp[1])
    /\ file # None
    /\ IsSnapshot(file[1])
    /\ JsonLoads(temp[1]).carts # JsonLoads(file[1]).carts
    /\ JsonLoads(temp[1]).metadata.poll_count = JsonLoads(file[1]).metadata.poll_count + 1
    /\ state.carts = JsonLoads(file[1]).carts
    /\ state.metadata.last_update = JsonLoads(file[1]).metadata.last_update

\* C19: a process started on a missing or malformed snapshot file (no JSON,
\* JSON without the carts mapping, JSON without the metadata part) reaches
\* the loop top with a fresh snapshot: no carts, no last update (so that its
\* next successful poll is a cold start), poll counter 0.
C19_CorruptionRecovery ==
    [][(/\ pc \in Ended
        /\ runs' = runs + 1
        /\ (file = None \/ ~IsSnapshot(file[1])))
       => /\ pc' = "top"
          /\ DOMAIN state'.carts = {}
          /\ IsColdStart(state')
          /\ state'.metadata.poll_count = 0]_vars

\* C20: a fetch holding a record without id is detected like the fetch
\* without that record: the cycle goes on to build events or to save, and
\* the records that have an id are classified.
C20_MissingIdSkipped ==
    [][(pc = "detecting" /\ detect_raises(carts[1]))
       => /\ pc' # "failed"
          /\ pc' \in {"building", "saving"}
               => \A i \in 1..Len(carts[1]) :
                     HasId(carts[1][i])
                       => carts[1][i] \in Range(changes'[1].new)
                                          \cup Range(changes'[1].modified)
                                          \cup Range(changes'[1].unchanged)]_vars

\* C21: a cycle whose events exhausted their publish retries, the write to
\* the dead-letter sink failing or not, goes on: publish_events returns its
\* counts, the loop proceeds to save_state and from there to the wait or the
\* loop-top check; the process does not end on it.
C21_PartialSuccessKeepsPolling ==
    [][(/\ pc = "publishing"
        /\ publisher_config # None
        /\ pc' \notin {"publishing", "down"})
       => /\ pc' = "saving"
          /\ stats' # None
          /\ stats'[1].success + stats'[1].failed = Len(events)]_vars

\* C22: once the stop signal is set the process reaches its stopped state,
\* unless it is killed first; with the signal set, the wait and the loop-top
\* check lead to the stopped state and to no further cycle.
C22_StopEventuallyHonoured ==
    /\ stop ~> (pc \in {"stopped", "down"})
    /\ [][(stop /\ pc \in {"waiting", "top"})
            => pc' \in {"waiting", "top", "stopped", "down"}]_vars

\* C23: on a warm poll a fetched record whose date and canonical products
\* signature equal the stored ones, whatever its userId, is classified
\* unchanged and nothing else, and its stored entry (date, userId, products)
\* is after the poll exactly what it was before.
C23_UnchangedEntryUntouched ==
    (pure_out # None /\ ~IsColdStart(In.state)) =>
        \A i \in 1..Len(In.api_carts) :
            LET c == In.api_carts[i]
                k == Str(c.id)
            IN  (k \in DOMAIN In.state.carts /\ ~Differs(In.state.carts[k], c))
                => /\ k \in DOMAIN Out.state.carts
                   /\ Out.state.carts[k] = In.state.carts[k]
                   /\ c \in Range(Out.changes.unchanged)
                   /\ c \notin Range(Out.changes.new) \cup Range(Out.changes.modified)

\* a record that came with another userId and its products in another order
\* than stored was found unchanged, and the entry kept the stored userId and
\* the stored order
C23_Witness ==
    /\ pure_out # None
    /\ ~IsColdStart(In.state)
    /\ \E i \in 1..Len(In.api_carts) :
          LET c == In.api_carts[i]
              k == Str(c.id)
          IN  /\ k \in DOMAIN In.state.carts
              /\ c \in Range(Out.changes.unchanged)
              /\ c.userId # In.state.carts[k].userId
              /\ c.products # In.state.carts[k].products
              /\ Out.state.carts[k] = In.state.carts[k]

\* the event is of the given type and carries the record
IsEventFor(e, event_type, cart) ==
    /\ e.event_type = event_type
    /\ JsonLoads(e.data).id = cart.id
    /\ JsonLoads(e.data).userId = cart.userId
    /\ JsonLoads(e.data).date = cart.date
    /\ JsonLoads(e.data).products = cart.products

\* C24: in a cycle whose fetch succeeded the events built are, in this
\* order, one cart_created event per created record, one cart_modified event
\* per modified record and one cart_deleted event per deleted record, each in
\* the order of detection; no event carries the id of an unchanged record;
\* this list is what publish_events is given, and publish_events is not
\* called when nothing changed.
C24_EventsCoverChanges ==
    pure_out # None =>
        LET ch == Out.changes
            n == Len(ch.new)
            m == Len(ch.modified)
            d == Len(ch.deleted)
        IN  /\ Len(Out.events) = n + m + d
            /\ \A i \in 1..n : IsEventFor(Out.events[i], "cart_created", ch.new[i])
            /\ \A i \in 1..m : IsEventFor(Out.events[n + i], "cart_modified", ch.modified[i])
            /\ \A i \in 1..d : IsEventFor(Out.events[n + m + i], "cart_deleted", ch.deleted[i])
            /\ \A c \in Range(ch.unchanged), i \in 1..Len(Out.events) :
                  Str(JsonLoads(Out.events[i].data).id) # Str(c.id)
            /\ Out.handed = (IF n + m + d > 0 THEN Some(Out.events) ELSE None)

\* one poll has created a cart, modified another and deleted a third, and
\* handed the three events over
C24_Witness ==
    /\ pure_out # None
    /\ Len(Out.changes.new) = 1
    /\ Len(Out.changes.modified) = 1
    /\ Len(Out.changes.deleted) = 1
    /\ Out.handed # None
    /\ Len(Out.handed[1]) = 3
    /\ Out.handed[1][3].event_type = "cart_deleted"

\* C25: a poll takes the cold-start path exactly when its run loaded no
\* snapshot from the file and no earlier poll of the run had a successful
\* fetch: polls whose fetch failed do not use the cold start up, and after
\* the first detection every poll of the run is warm, whatever was fetched
\* and whether or not the snapshot file could be written.
C25_ColdStartOnce ==
    [][(pc = "detecting" /\ pc' \in {"building", "saving"})
       => (changes'[1].is_cold_start <=> (~from_file /\ last_fetch = None))]_vars

\* the first poll of a run without snapshot failed to fetch, the second
\* fetched nothing and could not write the file, the third found a cart and
\* handled it as a warm poll
C25_Witness ==
    /\ pc = "building"
    /\ ~from_file
    /\ poll_count = 3
    /\ last_fetch = Some(<<>>)
    /\ file = None
    /\ Len(changes[1].new) > 0
    /\ ~changes[1].is_cold_start

\* C26: the delays publish_event_to_pubsub sleeps for one event are 2, 4, 8
\* seconds: the k-th delay, slept before the k-th retry, is 2^k and twice
\* the one before; there is one delay per failed call that is retried and
\* none after the call that is acknowledged or after the last failed call.
C26_BackoffDoubles ==
    pure_out # None =>
        \A i \in 1..Len(In.events) :
            LET slept == Out.each[i].slept
                failures == Cardinality({k \in 1..Len(Out.each[i].calls) :
                                            ~Out.each[i].calls[k].acked})
            IN  /\ \A k \in 1..Len(slept) : slept[k] = 2 ^ k
                /\ \A k \in 2..Len(slept) : slept[k] = 2 * slept[k - 1]
                /\ slept = SubSeq(<<2, 4, 8>>, 1, Len(slept))
                /\ Len(slept) = IF Out.each[i].ok THEN failures ELSE failures - 1

\* one event was given up after the delays 2, 4, 8, another one was
\* acknowledged at once without any delay
C26_Witness ==
    /\ pure_out # None
    /\ Len(In.events) = 2
    /\ ~Out.each[1].ok
    /\ Out.each[1].slept = <<2, 4, 8>>
    /\ Out.each[2].ok
    /\ Out.each[2].slept = <<>>

\* C27: fetch_carts_from_api makes the requests 1, 2, ... and at most
\* MAX_RETRIES of them; it returns the records of the first request that
\* succeeds and makes no request after it; the delays slept are 2 and 4
\* seconds, one after each failed request that is followed by another one;
\* when MAX_RETRIES requests have failed it returns None, and exactly then
\* the loop skips the cycle.
C27_FetchBounded ==
    pure_out # None =>
        LET r == Out.fetch
            n == Len(r.requests)
        IN  /\ n >= 1
            /\ n <= MAX_RETRIES
            /\ \A k \in 1..n : r.requests[k] = k
            /\ \A k \in 1..(n - 1) : In.api[k] = None
            /\ r.result = In.api[n]
            /\ (r.result = None) <=> (\A k \in 1..MAX_RETRIES : In.api[k] = None)
            /\ r.result = None => n = MAX_RETRIES
            /\ r.slept = SubSeq(<<2, 4>>, 1, n - 1)
            /\ Out.skip <=> (r.result = None)

\* three requests failed and the cycle is skipped after the delays 2 and 4,
\* although a fourth request would have been answered
C27_Witness ==
    /\ pure_out # None
    /\ In.api[MAX_RETRIES + 1] # None
    /\ Out.fetch.result = None
    /\ Out.fetch.requests = <<1, 2, 3>>
    /\ Out.fetch.slept = <<2, 4>>
    /\ Out.skip

\* the broker acknowledged a publish call of the event in this cycle
Acked(e) == \E k \in 1..Len(pubLog) : pubLog[k].event_id = e.event_id /\ pubLog[k].acked

\* C28: with a publisher, when the replace of line 159 persists the
\* snapshot of a cycle, every event of the cycle was acknowledged by the
\* broker or is in the dead-letter sink, and the dead_letter count that
\* publish_events returned is the number of events written to the sink.
C28_NoChangeSilentlyLost ==
    [][(/\ pc = "renaming"
        /\ file' = Some(JsonDumps(state))
        /\ publisher_config # None
        /\ events # <<>>)
       => /\ \A i \in 1..Len(events) :
                Acked(events[i]) \/ events[i] \in Range(dead_letter)
          /\ stats[1].dead_letter = Len(dead_letter)]_vars

\* C29: publish_events counts as success only events the broker
\* acknowledged, unless local mode was requested; and a run that asked for
\* the broker and got no publisher does not persist a snapshot holding
\* changes whose events were never sent.
C29_SuccessOnlyIfAckedOrLocal ==
    [][/\ (pc = "publishing" /\ pc' = "saving" /\ ~local_mode)
            => stats'[1].success = Cardinality({i \in 1..Len(events) :
                   \E k \in 1..Len(pubLog') :
                       pubLog'[k].event_id = events[i].event_id /\ pubLog'[k].acked})
       /\ (/\ pc = "renaming"
           /\ ~local_mode
           /\ publisher_config = None
           /\ events # <<>>)
            => file' = file]_vars

\* C30: two events that one run built in different polls, hence for
\* different detected changes, never carry the same event_id.
C30_DistinctChangesDistinctIds ==
    \A k \in 1..Len(sent), l \in 1..Len(sent) :
        (/\ EventOf(sent[k]).run_id = EventOf(sent[l]).run_id
         /\ EventOf(sent[k]).extracted_at # EventOf(sent[l]).extracted_at)
        => sent[k].event_id # sent[l].event_id

====
